---- MODULE Spec2Model ----
(***************************************************************************)
(* LOB Filler (src/lob.py): the ETA file is validated, matched strictly    *)
(* against the stockcodes of the LOB table, sorted by stockcode and ETA,   *)
(* and every shipment fills the next empty A/C# cells of its stockcode.    *)
(*                                                                         *)
(* Strings are sequences of code points (32 is the space, 65 "A", ...), so *)
(* that str.strip and the lexicographic order of str are computed, not     *)
(* assumed.  A table cell is a record [kind, s]: kind "float" is NaN,      *)
(* kind "str" is a Python str with the characters s.                       *)
(***************************************************************************)
EXTENDS Integers, Sequences, FiniteSets, TLC

\* ---------------------------------------------------------------- bounds
\* number of rows of the ETA file
NumShip == 2
\* number of A/C# columns of the LOB table
NumCols == 3

\* ---------------------------------------------------------------- strings
RECURSIVE lstrip(_)
lstrip(s) ==
    IF s = <<>> THEN <<>>
    ELSE IF Head(s) \in {9, 32} THEN lstrip(Tail(s)) ELSE s

RECURSIVE rstrip(_)
rstrip(s) ==
    IF s = <<>> THEN <<>>
    ELSE IF s[Len(s)] \in {9, 32} THEN rstrip(SubSeq(s, 1, Len(s) - 1)) ELSE s

\* str.strip()
strip(s) == rstrip(lstrip(s))

\* s < t for two str: code points compared left to right, a proper prefix first
RECURSIVE StrLess(_, _)
StrLess(s, t) ==
    IF t = <<>> THEN FALSE
    ELSE IF s = <<>> THEN TRUE
    ELSE IF Head(s) # Head(t) THEN Head(s) < Head(t)
    ELSE StrLess(Tail(s), Tail(t))

\* the values of a table cell
NaN == [kind |-> "float", s |-> <<>>]
Str(chars) == [kind |-> "str", s |-> chars]
Stock == Str(<<83, 116, 111, 99, 107>>)
Blank == Str(<<32>>)

\* a bug: the text is used as it is read
NoStrip(s) == s

\* _std_str_series on one value: astype(str).str.strip()
_std_str_series(s) == strip(s)

\* _cell_is_empty(val): None, NaN and the blank str are empty, the rest is not
_cell_is_empty(val) ==
    IF val.kind = "None" THEN TRUE
    ELSE IF val.kind = "float" /\ val = NaN THEN TRUE
    ELSE IF val.kind = "str" THEN strip(val.s) = <<>>
    ELSE FALSE

\* pd.to_numeric(errors="coerce"): a raw number is [nan, v], nan when the text
\* is no number
Num(v) == [nan |-> FALSE, v |-> v]
NotANumber == [nan |-> TRUE, v |-> 0]

\* .fillna(0).astype(int) of the quantity column
QtyToInt(x) == IF x.nan THEN 0 ELSE x.v

\* a date that pd.to_datetime(errors="coerce") could not parse
NaT == 0
pd_notna(d) == d # NaT

\* ---------------------------------------------------------------- marker
Sup1 == <<83, 117, 112, 49>>
Sup2 == <<83, 117, 112, 50>>

\* supplier_colors.get(supplier_name, "#FFFFFF")
supplier_colors_get(supplier_name) ==
    IF supplier_name = Sup1 THEN <<35, 70, 70, 68, 57, 54, 54>>
    ELSE IF supplier_name = Sup2 THEN <<35, 65, 52, 67, 50, 70, 52>>
    ELSE <<35, 70, 70, 70, 70, 70, 70>>

\* r[eta_col].strftime("%m/%d/%y"), or "N/A"; a date is a day of January 2026
eta_str(eta) ==
    IF pd_notna(eta) THEN <<48, 49, 47>> \o <<48 + (eta \div 10), 48 + (eta % 10)>>
                          \o <<47, 50, 54>>
    ELSE <<78, 47, 65>>

\* f"{supplier_name}-{eta_str}"
cell_text(r) == r.supplier \o <<45>> \o eta_str(r.eta)

\* f'<div style="background-color:{bgcolor}; padding:4px;">{cell_text}</div>'
CellMarkup(r) ==
    Str(<<60, 100, 105, 118, 32, 115, 116, 121, 108, 101, 61, 34, 98, 97, 99,
          107, 103, 114, 111, 117, 110, 100, 45, 99, 111, 108, 111, 114, 58>>
        \o supplier_colors_get(r.supplier)
        \o <<59, 32, 112, 97, 100, 100, 105, 110, 103, 58, 52, 112, 120, 59, 34, 62>>
        \o cell_text(r)
        \o <<60, 47, 100, 105, 118, 62>>)

\* ---------------------------------------------------------------- inputs
\* One row of the ETA file as read: the stockcode and supplier texts, the raw
\* quantity and Qty/SS, and the ETA (a day number, or NaT when unparseable).
EtaRow(stock, supplier, qty, qpss, eta) ==
    [stock |-> stock, supplier |-> supplier, qty |-> qty, qpss |-> qpss, eta |-> eta]

\* The rows an ETA file is drawn from.  " A" and "B" are rows of the LOB once
\* stripped, "C" and "a" are not.
EtaRows ==
    { EtaRow(<<32, 65>>, Sup1,         Num(5),     Num(2),     2),
      EtaRow(<<32, 65>>, <<88>>,       Num(3),     Num(1),     1),
      EtaRow(<<65>>,     Sup2,         Num(3),     Num(2),     NaT),
      EtaRow(<<65, 32>>, <<32, 88>>,   Num(2),     Num(2),     1),
      EtaRow(<<32, 65>>, <<88>>,       Num(-1),    Num(2),     1),
      EtaRow(<<65>>,     Sup1,         NotANumber, Num(2),     NaT),
      EtaRow(<<66>>,     Sup1,         Num(4),     Num(2),     1),
      EtaRow(<<66>>,     <<88>>,       Num(1),     Num(2),     NaT),
      EtaRow(<<67>>,     Sup2,         Num(2),     Num(1),     1),
      EtaRow(<<97>>,     Sup1,         Num(3),     Num(2),     NaT),
      EtaRow(<<32, 65>>, Sup1,         Num(2),     Num(0),     1),
      EtaRow(<<66>>,     <<88>>,       Num(2),     NotANumber, 2),
      EtaRow(<<67>>,     Sup2,         Num(-2),    Num(-1),    1) }

\* the ETA files: NumShip rows
EtaFiles == [1..NumShip -> EtaRows]

\* The LOB files: the index column holds "A" and "B " (stripped on reading);
\* every cell of row "A" is NaN or "Stock", row "B " repeats " ", "Stock", NaN.
LobIndex == << <<65>>, <<66, 32>> >>
RowBCell(c) == IF c % 3 = 1 THEN Blank ELSE IF c % 3 = 2 THEN Stock ELSE NaN
LobFiles ==
    { [index |-> LobIndex, cells |-> <<rowA, [c \in 1..NumCols |-> RowBCell(c)]>>] :
        rowA \in [1..NumCols -> {NaN, Stock}] }

\* init_file is None: no LOB file uploaded yet
NoFile == [index |-> <<>>, cells |-> <<>>]

\* ---------------------------------------------------------------- state
VARIABLES
    uploaded_eta,        \* the ETA file as uploaded (a sequence of EtaRow)
    init_file,           \* the LOB file as uploaded, NoFile before the upload
    pc,                  \* where the script is
    outcome,             \* "none", or "error" once st.error was shown
    df_eta,              \* the ETA frame after standardising and converting
    df_lob,              \* the LOB frame: stockcode -> its cells, NaN replaced by ''
    present_stockcodes,  \* set(df_lob.index)
    df_eta_valid,        \* the rows of df_eta whose stockcode is in the LOB, sorted
    ignored,             \* the sorted list of stockcodes that are not in the LOB
    styled_table,        \* the working copy the shipments are filled into
    leftovers,           \* the dict of leftovers, as its (stock, pcs) entries in order
    stocks,              \* the stockcodes the outer for loop has still to visit
    stock,               \* the stockcode of the group being filled
    rows,                \* the rows of the group the inner for loop has still to visit
    r,                   \* the row (shipment) being placed
    ac_idx,              \* the cursor over the A/C# columns, 0-based
    sets,                \* full shipsets of the shipment
    rem,                 \* remainder pieces of the shipment
    placed,              \* cells written for the shipment so far
    writes,              \* history: every cell write of this run, in order
    prev                 \* history: what the previous complete run produced

vars == <<uploaded_eta, init_file, pc, outcome, df_eta, df_lob, present_stockcodes,
          df_eta_valid, ignored, styled_table, leftovers, stocks, stock, rows, r,
          ac_idx, sets, rem, placed, writes, prev>>

\* the Python variables of one execution of the script
run_vars == <<df_eta, df_lob, present_stockcodes, df_eta_valid, ignored, styled_table,
              leftovers, stocks, stock, rows, r, ac_idx, sets, rem, placed, writes>>

NoRow == [idx |-> 0, stock |-> <<>>, supplier |-> <<>>, qty |-> 0,
          qpss |-> NotANumber, eta |-> NaT]
NoRun == [ran |-> FALSE, table |-> <<>>, leftovers |-> <<>>, ignored |-> <<>>]

\* the state of a script execution that has not started
Fresh ==
    /\ outcome = "none"
    /\ df_eta = <<>>
    /\ df_lob = <<>>
    /\ present_stockcodes = {}
    /\ df_eta_valid = <<>>
    /\ ignored = <<>>
    /\ styled_table = <<>>
    /\ leftovers = <<>>
    /\ stocks = <<>>
    /\ stock = <<>>
    /\ rows = <<>>
    /\ r = NoRow
    /\ ac_idx = 0
    /\ sets = 0
    /\ rem = 0
    /\ placed = 0
    /\ writes = <<>>

Init ==
    /\ uploaded_eta \in EtaFiles
    /\ init_file = NoFile
    /\ pc = "read_eta"
    /\ prev = NoRun
    /\ Fresh

\* an execution of the script starts: its variables of the execution before are gone
Restart ==
    /\ outcome' = "none"
    /\ df_eta' = <<>>
    /\ df_lob' = <<>>
    /\ present_stockcodes' = {}
    /\ df_eta_valid' = <<>>
    /\ ignored' = <<>>
    /\ styled_table' = <<>>
    /\ leftovers' = <<>>
    /\ stocks' = <<>>
    /\ stock' = <<>>
    /\ rows' = <<>>
    /\ r' = NoRow
    /\ ac_idx' = 0
    /\ sets' = 0
    /\ rem' = 0
    /\ placed' = 0
    /\ writes' = <<>>

\* ---------------------------------------------------------------- frames
SeqToSet(q) == {q[i] : i \in 1..Len(q)}

\* df[df[stock_col].isin(S)]: the rows whose stockcode is in S, in frame order
RECURSIVE RowsIsin(_, _)
RowsIsin(q, S) ==
    IF q = <<>> THEN <<>>
    ELSE IF Head(q).stock \in S THEN <<Head(q)>> \o RowsIsin(Tail(q), S)
    ELSE RowsIsin(Tail(q), S)

\* a bug: dates descending
EtaGreater(x, y) == pd_notna(x) /\ (~pd_notna(y) \/ x > y)

\* dates ascending, NaT last (sort_values: na_position="last")
EtaLess(x, y) == pd_notna(x) /\ (~pd_notna(y) \/ x < y)

\* the order of sort_values([stock_col, eta_col])
RowLess(a, b) ==
    \/ StrLess(a.stock, b.stock)
    \/ a.stock = b.stock /\ EtaLess(a.eta, b.eta)

\* x inserted behind every row that is not greater than it (kind="stable")
RECURSIVE InsertRow(_, _)
InsertRow(q, x) ==
    IF q = <<>> THEN <<x>>
    ELSE IF RowLess(x, Head(q)) THEN <<x>> \o q
    ELSE <<Head(q)>> \o InsertRow(Tail(q), x)

RECURSIVE sort_values(_)
sort_values(q) ==
    IF q = <<>> THEN <<>>
    ELSE InsertRow(sort_values(SubSeq(q, 1, Len(q) - 1)), q[Len(q)])

\* Series.unique(): the distinct values in order of first appearance
RECURSIVE unique(_)
unique(q) ==
    IF q = <<>> THEN <<>>
    ELSE LET u == unique(SubSeq(q, 1, Len(q) - 1))
         IN  IF q[Len(q)] \in SeqToSet(u) THEN u ELSE Append(u, q[Len(q)])

\* sorted(...) of a list of str
RECURSIVE InsertStr(_, _)
InsertStr(q, x) ==
    IF q = <<>> THEN <<x>>
    ELSE IF StrLess(x, Head(q)) THEN <<x>> \o q
    ELSE <<Head(q)>> \o InsertStr(Tail(q), x)

\* a bug: the list is left in the order the set yields it
unsorted(q) == q

RECURSIVE sorted(_)
sorted(q) ==
    IF q = <<>> THEN <<>>
    ELSE InsertStr(sorted(SubSeq(q, 1, Len(q) - 1)), q[Len(q)])

\* the orders in which iterating over a Python set may yield its elements
Enumerations(S) ==
    {q \in [1..Cardinality(S) -> S] : \A i, j \in 1..Cardinality(S) : q[i] = q[j] => i = j}

\* leftovers.get(k, 0)
RECURSIVE DictGet(_, _)
DictGet(d, k) ==
    IF d = <<>> THEN 0
    ELSE IF Head(d).stock = k THEN Head(d).pcs ELSE DictGet(Tail(d), k)

\* leftovers[k] = v: an existing key keeps its place, a new key goes last
DictSet(d, k, v) ==
    IF \E i \in 1..Len(d) : d[i].stock = k
    THEN [i \in 1..Len(d) |-> IF d[i].stock = k THEN [stock |-> k, pcs |-> v] ELSE d[i]]
    ELSE Append(d, [stock |-> k, pcs |-> v])

\* a bug: the remainder replaces the entry instead of adding to it
AddLeftoverOverwrites(d, k, v) == DictSet(d, k, v)

\* leftovers[stock] = leftovers.get(stock, 0) + rem
AddLeftover(d, k, v) == DictSet(d, k, DictGet(d, k) + v)

\* a bug: the cursor is used where it stands, whatever the cell holds
NextEmptyNoAdvance(cells, i) == i

\* while ac_idx < len(ac_columns) and not _cell_is_empty(...): ac_idx += 1
RECURSIVE NextEmpty(_, _)
NextEmpty(cells, i) ==
    IF i < Len(cells) /\ ~_cell_is_empty(cells[i + 1]) THEN NextEmpty(cells, i + 1)
    ELSE i

\* a bug: the shipsets are rounded up
shipsetsCeil(qty, qpss) == (qty + qpss - 1) \div qpss

\* sets = int(qty // qpss)
shipsets(qty, qpss) == qty \div qpss

\* a bug: only a quantity of 0 is skipped
SkipsOnlyZero(qty) == qty = 0

\* if qty <= 0: continue
SkipsShipment(qty) == qty <= 0

\* ---------------------------------------------------------------- script
\* one row of df_eta: columns standardised and converted (lines 74-79, 92)
ConvertRow(i, raw) ==
    [idx |-> i,
     stock |-> _std_str_series(raw.stock),
     supplier |-> _std_str_series(raw.supplier),
     qty |-> QtyToInt(raw.qty),
     qpss |-> raw.qpss,
     eta |-> raw.eta]

\* a bug: a Qty/SS of 0 passes
bad_qpss_negative_only(row) == row.qpss.nan \/ row.qpss.v < 0

\* bad_qpss of one row: Qty/SS missing or <= 0
bad_qpss(row) == row.qpss.nan \/ row.qpss.v <= 0

\* Step 1: the ETA file is read, converted and validated; an invalid Qty/SS
\* stops the script with an error; without a LOB file the script ends here.
ReadEta ==
    /\ pc = "read_eta"
    /\ LET df == [i \in 1..Len(uploaded_eta) |-> ConvertRow(i, uploaded_eta[i])]
       IN  /\ df_eta' = df
           /\ IF \E i \in 1..Len(df) : bad_qpss(df[i])
              THEN outcome' = "error" /\ pc' = "stopped"
              ELSE /\ outcome' = outcome
                   /\ pc' = IF init_file = NoFile THEN "await_lob" ELSE "read_lob"
    /\ UNCHANGED <<uploaded_eta, init_file, df_lob, present_stockcodes, df_eta_valid,
                   ignored, styled_table, leftovers, stocks, stock, rows, r, ac_idx,
                   sets, rem, placed, writes, prev>>

\* The user uploads the LOB file: the script is executed again from the top.
UploadLob ==
    /\ pc = "await_lob"
    /\ \E f \in LobFiles : init_file' = f
    /\ pc' = "read_eta"
    /\ Restart
    /\ UNCHANGED <<uploaded_eta, prev>>

\* df_lob.replace({None: pd.NA}).fillna(""): a missing cell becomes ''
fillna(val) == IF val.kind = "str" THEN val ELSE Str(<<>>)

\* Step 2: the LOB file is read, its index stripped, its empties normalised.
ReadLob ==
    /\ pc = "read_lob"
    /\ LET index == [i \in 1..Len(init_file.index) |-> _std_str_series(init_file.index[i])]
       IN  df_lob' = [k \in SeqToSet(index) |->
                        LET i == CHOOSE i \in 1..Len(index) : index[i] = k
                        IN  [c \in 1..Len(init_file.cells[i]) |->
                               fillna(init_file.cells[i][c])]]
    /\ pc' = "match"
    /\ UNCHANGED <<uploaded_eta, init_file, outcome, df_eta, present_stockcodes,
                   df_eta_valid, ignored, styled_table, leftovers, stocks, stock, rows,
                   r, ac_idx, sets, rem, placed, writes, prev>>

\* Strict match and sort: only the stockcodes of the LOB are used, the others are
\* listed sorted; the working copy and the leftovers start here.
StrictMatch ==
    /\ pc = "match"
    /\ present_stockcodes' = DOMAIN df_lob
    /\ LET valid == sort_values(RowsIsin(df_eta, DOMAIN df_lob))
       IN  /\ df_eta_valid' = valid
           /\ stocks' = unique([i \in 1..Len(valid) |-> valid[i].stock])
    /\ \E order \in Enumerations({df_eta[i].stock : i \in 1..Len(df_eta)} \ DOMAIN df_lob) :
          ignored' = sorted(order)
    /\ styled_table' = df_lob
    /\ leftovers' = <<>>
    /\ pc' = "for_stock"
    /\ UNCHANGED <<uploaded_eta, init_file, outcome, df_eta, df_lob, stock, rows, r,
                   ac_idx, sets, rem, placed, writes, prev>>

\* for stock in ...unique(): the group's rows, and the first empty cell of the row
ForStock ==
    /\ pc = "for_stock"
    /\ stocks # <<>>
    /\ stock' = Head(stocks)
    /\ stocks' = Tail(stocks)
    /\ rows' = RowsIsin(df_eta_valid, {Head(stocks)})
    /\ ac_idx' = NextEmpty(styled_table[Head(stocks)], 0)
    /\ pc' = "for_row"
    /\ UNCHANGED <<uploaded_eta, init_file, outcome, df_eta, df_lob, present_stockcodes,
                   df_eta_valid, ignored, styled_table, leftovers, r, sets, rem, placed,
                   writes, prev>>

\* where the inner for loop goes once a row is dealt with
AfterRow(rest) == IF rest = <<>> THEN "for_stock" ELSE "for_row"

\* a bug: every shipment starts again from column 0
ForRowResetsCursor ==
    /\ pc = "for_row"
    /\ rows # <<>>
    /\ r' = Head(rows)
    /\ rows' = Tail(rows)
    /\ ac_idx' = 0
    /\ IF SkipsShipment(Head(rows).qty)
       THEN /\ pc' = AfterRow(Tail(rows))
            /\ UNCHANGED <<sets, rem, placed>>
       ELSE /\ sets' = shipsets(Head(rows).qty, Head(rows).qpss.v)
            /\ rem' = Head(rows).qty - sets' * Head(rows).qpss.v
            /\ placed' = 0
            /\ pc' = "place"
    /\ UNCHANGED <<uploaded_eta, init_file, outcome, df_eta, df_lob, present_stockcodes,
                   df_eta_valid, ignored, styled_table, leftovers, stocks, stock,
                   writes, prev>>

\* for _, r in rows.iterrows(): a quantity <= 0 is skipped, else sets and rem
ForRow ==
    /\ pc = "for_row"
    /\ rows # <<>>
    /\ r' = Head(rows)
    /\ rows' = Tail(rows)
    /\ IF SkipsShipment(Head(rows).qty)
       THEN /\ pc' = AfterRow(Tail(rows))
            /\ UNCHANGED <<sets, rem, placed>>
       ELSE /\ sets' = shipsets(Head(rows).qty, Head(rows).qpss.v)
            /\ rem' = Head(rows).qty - sets' * Head(rows).qpss.v
            /\ placed' = 0
            /\ pc' = "place"
    /\ UNCHANGED <<uploaded_eta, init_file, outcome, df_eta, df_lob, present_stockcodes,
                   df_eta_valid, ignored, styled_table, leftovers, stocks, stock, ac_idx,
                   writes, prev>>

\* the placement loop goes on: placed < sets and an empty cell is left in the row
CanPlace ==
    /\ placed < sets
    /\ ac_idx < Len(styled_table[stock])
    /\ NextEmpty(styled_table[stock], ac_idx) < Len(styled_table[stock])

\* one turn of the placement loop: advance to the next empty cell and fill it
PlaceCell ==
    /\ pc = "place"
    /\ CanPlace
    /\ LET j == NextEmpty(styled_table[stock], ac_idx)
       IN  /\ styled_table' = [styled_table EXCEPT ![stock][j + 1] = CellMarkup(r)]
           /\ writes' = Append(writes, [stock |-> stock, col |-> j, idx |-> r.idx,
                                        before |-> styled_table[stock][j + 1]])
           /\ ac_idx' = j + 1
    /\ placed' = placed + 1
    /\ UNCHANGED <<uploaded_eta, init_file, pc, outcome, df_eta, df_lob,
                   present_stockcodes, df_eta_valid, ignored, leftovers, stocks, stock,
                   rows, r, sets, rem, prev>>

\* a bug: the full shipsets the row had no cell for are counted as leftover pieces
EndRowCountsUnplaced ==
    /\ pc = "place"
    /\ ~CanPlace
    /\ ac_idx' = IF placed < sets /\ ac_idx < Len(styled_table[stock])
                 THEN NextEmpty(styled_table[stock], ac_idx)
                 ELSE ac_idx
    /\ leftovers' = IF rem + (sets - placed) * r.qpss.v > 0
                    THEN AddLeftover(leftovers, stock, rem + (sets - placed) * r.qpss.v)
                    ELSE leftovers
    /\ pc' = AfterRow(rows)
    /\ UNCHANGED <<uploaded_eta, init_file, outcome, df_eta, df_lob, present_stockcodes,
                   df_eta_valid, ignored, styled_table, stocks, stock, rows, r, sets,
                   rem, placed, writes, prev>>

\* the placement loop ends (all sets placed, or the row is full: break) and the
\* remainder pieces are added to the leftovers of the stockcode
EndRow ==
    /\ pc = "place"
    /\ ~CanPlace
    /\ ac_idx' = IF placed < sets /\ ac_idx < Len(styled_table[stock])
                 THEN NextEmpty(styled_table[stock], ac_idx)
                 ELSE ac_idx
    /\ leftovers' = IF rem > 0
                    THEN AddLeftover(leftovers, stock, rem)
                    ELSE leftovers
    /\ pc' = AfterRow(rows)
    /\ UNCHANGED <<uploaded_eta, init_file, outcome, df_eta, df_lob, present_stockcodes,
                   df_eta_valid, ignored, styled_table, stocks, stock, rows, r, sets,
                   rem, placed, writes, prev>>

\* every group is filled: the table, the leftovers and the ignored list are shown
EndRun ==
    /\ pc = "for_stock"
    /\ stocks = <<>>
    /\ pc' = "done"
    /\ UNCHANGED <<uploaded_eta, init_file, outcome, run_vars, prev>>

\* what one execution hands to the display and the export
Outputs == [ran |-> TRUE, table |-> styled_table, leftovers |-> leftovers,
            ignored |-> ignored]

\* The script is executed again on the same two files (any interaction with the
\* page does this); the history keeps what the execution before produced.
Rerun ==
    /\ pc = "done"
    /\ prev' = Outputs
    /\ pc' = "read_eta"
    /\ Restart
    /\ UNCHANGED <<uploaded_eta, init_file>>

Next ==
    \/ ReadEta
    \/ UploadLob
    \/ ReadLob
    \/ StrictMatch
    \/ ForStock
    \/ ForRow
    \/ PlaceCell
    \/ EndRow
    \/ EndRun
    \/ Rerun

Spec == Init /\ [][Next]_vars


\* ---------------------------------------------------------------- properties
\* the allocation pass is running or over: styled_table is the working copy
InAlloc == pc \in {"for_stock", "for_row", "place", "done"}

\* the row keys of the LOB file and of the ETA file, trimmed
TableKeys == {strip(init_file.index[i]) : i \in 1..Len(init_file.index)}
ShipKeys == {strip(uploaded_eta[i].stock) : i \in 1..Len(uploaded_eta)}

\* the shipments of the ETA file (by position) that go to row k
ShipmentsOf(k) == {i \in 1..Len(uploaded_eta) : strip(uploaded_eta[i].stock) = k}

\* quantityPieces and piecesPerUnit of shipment i
Pieces(i) == IF uploaded_eta[i].qty.nan THEN 0 ELSE uploaded_eta[i].qty.v
PerUnit(i) == uploaded_eta[i].qpss.v

RECURSIVE SumOf(_, _)
SumOf(S, f) ==
    IF S = {} THEN 0
    ELSE LET x == CHOOSE x \in S : TRUE IN f[x] + SumOf(S \ {x}, f)

Min(a, b) == IF a < b THEN a ELSE b

\* the LeftoverReport entry of row k, 0 when the row has none
LeftoverTotal(k) ==
    IF \E n \in 1..Len(leftovers) : leftovers[n].stock = k
    THEN leftovers[CHOOSE n \in 1..Len(leftovers) : leftovers[n].stock = k].pcs
    ELSE 0

\* the columns (1-based) of row k that were empty when the allocation began
EmptyCols(k) == {c \in 1..Len(df_lob[k]) : _cell_is_empty(df_lob[k][c])}
\* the columns of row k whose cell differs from the one the allocation began with
ChangedCols(k) == {c \in 1..Len(df_lob[k]) : styled_table[k][c] # df_lob[k][c]}
\* the first n elements of a set of columns
FirstCols(S, n) == {c \in S : Cardinality({d \in S : d < c}) < n}

\* C1 -- No double-write: every write of a run went to a cell that was empty just
\* before it, no cell is written twice, and a cell that was not empty when the
\* allocation began ('Stock', pre-filled) still holds its value.
C1_NoDoubleWrite ==
    InAlloc =>
        /\ \A i \in 1..Len(writes) :
              /\ _cell_is_empty(writes[i].before)
              /\ writes[i].before = df_lob[writes[i].stock][writes[i].col + 1]
        /\ \A i, j \in 1..Len(writes) :
              (writes[i].stock = writes[j].stock /\ writes[i].col = writes[j].col) => i = j
        /\ \A k \in DOMAIN df_lob : \A c \in 1..Len(df_lob[k]) :
              ~_cell_is_empty(df_lob[k][c]) => styled_table[k][c] = df_lob[k][c]

\* two shipments wrote into one row, around a 'Stock' cell that was skipped
C1_Witness ==
    /\ pc = "done"
    /\ \E i, j \in 1..Len(writes) :
          /\ writes[i].stock = writes[j].stock
          /\ writes[i].idx # writes[j].idx
          /\ \E c \in 1..Len(df_lob[writes[i].stock]) :
                /\ writes[i].col + 1 < c
                /\ c < writes[j].col + 1
                /\ df_lob[writes[i].stock][c] = Stock

\* C2 -- Ignored-set correctness: the ignored list holds exactly the distinct
\* trimmed shipment keys that are no trimmed table key, each once, and the usable
\* rows are exactly the shipments whose trimmed key is a table row.
C2_IgnoredSetCorrect ==
    InAlloc =>
        /\ SeqToSet(ignored) = ShipKeys \ TableKeys
        /\ Len(ignored) = Cardinality(ShipKeys \ TableKeys)
        /\ {df_eta_valid[n].idx : n \in 1..Len(df_eta_valid)}
              = {i \in 1..Len(uploaded_eta) : strip(uploaded_eta[i].stock) \in TableKeys}
        /\ Len(df_eta_valid)
              = Cardinality({i \in 1..Len(uploaded_eta) :
                               strip(uploaded_eta[i].stock) \in TableKeys})

\* one shipment is ignored, one is usable thanks to the trimming of a key
C2_Witness ==
    /\ InAlloc
    /\ ignored # <<>>
    /\ \E n \in 1..Len(df_eta_valid) :
          uploaded_eta[df_eta_valid[n].idx].stock # df_eta_valid[n].stock

\* the remainder pieces of shipment i: what is no full shipset
Remainder(i) == Pieces(i) - (Pieces(i) \div PerUnit(i)) * PerUnit(i)

\* C3 -- Shipset conservation: for a row whose shipments all have a quantity >= 0
\* and a Qty/SS > 0, after the run the pieces in full shipsets plus the row's
\* leftover total (0 without an entry) are the pieces shipped, and that total is
\* the sum of the remainders of the shipments.
C3_Conservation ==
    pc = "done" =>
        \A k \in TableKeys :
            (\A i \in ShipmentsOf(k) : Pieces(i) >= 0 /\ PerUnit(i) > 0) =>
                /\ SumOf(ShipmentsOf(k),
                         [i \in ShipmentsOf(k) |-> (Pieces(i) \div PerUnit(i)) * PerUnit(i)])
                    + LeftoverTotal(k)
                  = SumOf(ShipmentsOf(k), [i \in ShipmentsOf(k) |-> Pieces(i)])
                /\ LeftoverTotal(k)
                  = SumOf(ShipmentsOf(k), [i \in ShipmentsOf(k) |-> Remainder(i)])

\* two shipments of one row both left a remainder, and the entry is their sum
C3_Witness ==
    /\ pc = "done"
    /\ \E k \in TableKeys :
          /\ LeftoverTotal(k) >= 2
          /\ \A i \in ShipmentsOf(k) : Pieces(i) % PerUnit(i) = 1

\* the shipments of row k that are not skipped
PlacedShipmentsOf(k) == {i \in ShipmentsOf(k) : Pieces(i) > 0}

\* C4 -- Table-full is distinct from leftover: a run that meets a full row ends
\* without an error; the leftover total of a row is the sum of the remainders of
\* its shipments whatever the table holds, the full shipsets that found no cell
\* add nothing; and an entry exists only for a strictly positive total.
C4_TableFullIsNotLeftover ==
    pc = "done" =>
        /\ outcome = "none"
        /\ \A k \in TableKeys :
              LeftoverTotal(k)
                = SumOf(PlacedShipmentsOf(k), [i \in PlacedShipmentsOf(k) |-> Remainder(i)])
        /\ \A n \in 1..Len(leftovers) :
              /\ leftovers[n].pcs > 0
              /\ leftovers[n].stock \in TableKeys
              /\ \A m \in 1..Len(leftovers) : leftovers[m].stock = leftovers[n].stock => m = n

\* the last shipment had full shipsets the row had no cell for, and no remainder:
\* the run is over and the LeftoverReport is empty
C4_Witness ==
    /\ pc = "done"
    /\ placed < sets
    /\ rem = 0
    /\ leftovers = <<>>
    /\ writes # <<>>

\* shipment a goes before shipment b: an earlier date, or the same date (or both
\* none) and an earlier place in the ETA file
GoesBefore(a, b) ==
    \/ /\ pd_notna(uploaded_eta[a].eta)
       /\ pd_notna(uploaded_eta[b].eta)
       /\ uploaded_eta[a].eta < uploaded_eta[b].eta
    \/ uploaded_eta[a].eta = uploaded_eta[b].eta /\ a < b

\* C5 -- Allocation priority and stability: in one row, every cell filled for a
\* shipment that goes before another lies strictly left of every cell filled for
\* the other.
C5_PriorityAndStability ==
    InAlloc =>
        \A i, j \in 1..Len(writes) :
            (writes[i].stock = writes[j].stock /\ GoesBefore(writes[i].idx, writes[j].idx))
                => writes[i].col < writes[j].col

\* the later row of the ETA file has the earlier date, and its cells are the left ones
C5_Witness ==
    /\ pc = "done"
    /\ \E i, j \in 1..Len(writes) :
          /\ writes[i].stock = writes[j].stock
          /\ writes[i].idx > writes[j].idx
          /\ pd_notna(uploaded_eta[writes[i].idx].eta)
          /\ pd_notna(uploaded_eta[writes[j].idx].eta)
          /\ uploaded_eta[writes[i].idx].eta < uploaded_eta[writes[j].idx].eta
          /\ writes[i].col < writes[j].col

\* the ETA file holds a record with a Qty/SS that is missing or <= 0
HasBadPerUnit ==
    \E i \in 1..Len(uploaded_eta) : uploaded_eta[i].qpss.nan \/ uploaded_eta[i].qpss.v <= 0
\* the ETA file holds a record with a negative quantity
HasNegativePieces == \E i \in 1..Len(uploaded_eta) : Pieces(i) < 0

\* C6 as stated -- a run that is given a record with piecesPerUnit <= 0 or with a
\* negative quantityPieces ends in an error: it never completes the allocation.
C6_FailFastAsStated ==
    (HasBadPerUnit \/ HasNegativePieces) => pc # "done"

\* C6 amended -- a record with a Qty/SS missing or <= 0 stops the run with an error
\* before anything is matched or filled, and nothing else does: a negative
\* quantity alone is no error.
C6_BadPerUnitFailsFast ==
    /\ HasBadPerUnit =>
          /\ pc \in {"read_eta", "stopped"}
          /\ styled_table = <<>>
          /\ writes = <<>>
    /\ pc = "stopped" => outcome = "error"
    /\ outcome = "error" => (HasBadPerUnit /\ pc = "stopped")

\* the run was stopped with the error
C6_Witness ==
    /\ pc = "stopped"
    /\ outcome = "error"
    /\ HasBadPerUnit

\* C7 -- Determinism: an execution on the same two files ends with the table, the
\* leftovers (entries in the same order) and the ignored list of the one before.
C7_Determinism ==
    (pc = "done" /\ prev.ran) => Outputs = prev

\* the second execution is over; it filled cells, left pieces over and ignored a key
C7_Witness ==
    /\ pc = "done"
    /\ prev.ran
    /\ writes # <<>>
    /\ leftovers # <<>>
    /\ ignored # <<>>

\* a step taken while the shipments of one row are placed
C8_CursorStep ==
    (pc \in {"for_row", "place"}) =>
        /\ stock' = stock
        /\ ac_idx' >= ac_idx
        /\ writes' # writes =>
              /\ writes'[Len(writes')].col >= ac_idx
              /\ ac_idx' = writes'[Len(writes')].col + 1

\* C8 -- Cursor monotonicity: while the shipments of a row are placed the cursor
\* stays on that row and never decreases, a write lands at or right of the cursor
\* and moves the cursor past it; the cursor started at column 0, so that no cell
\* left of it is empty.
C8_CursorMonotone ==
    /\ [][C8_CursorStep]_vars
    /\ [](pc \in {"for_row", "place"} =>
            /\ ac_idx <= Len(styled_table[stock])
            /\ \A c \in 1..ac_idx : ~_cell_is_empty(styled_table[stock][c]))

\* a later shipment of the row is about to be placed and the cursor stands behind
\* a cell an earlier shipment filled and a 'Stock' cell
C8_Witness ==
    /\ pc = "place"
    /\ writes # <<>>
    /\ writes[Len(writes)].stock = stock
    /\ writes[Len(writes)].idx # r.idx
    /\ ac_idx >= 2
    /\ \E c \in 1..ac_idx : df_lob[stock][c] = Stock

\* the shipment the inner for loop takes next has a quantity <= 0
C9_SkipStep == pc = "for_row" /\ rows # <<>> /\ Head(rows).qty <= 0

\* C9 -- A shipment with a quantity <= 0 is skipped: taking it leaves the table,
\* the cursor and the leftovers as they are and starts no placement, and no cell
\* was ever written for such a shipment.
C9_SkipIsFrame ==
    /\ [][C9_SkipStep => (UNCHANGED <<styled_table, ac_idx, leftovers, writes>>
                          /\ pc' # "place")]_vars
    /\ [](\A i \in 1..Len(writes) : Pieces(writes[i].idx) > 0)

\* a negative quantity with the earlier date was skipped, and the next shipment of
\* the row got the first empty cell of the row
C9_Witness ==
    /\ pc = "done"
    /\ \E i \in 1..Len(uploaded_eta) : \E n \in 1..Len(writes) :
          /\ Pieces(i) < 0
          /\ strip(uploaded_eta[i].stock) = writes[n].stock
          /\ GoesBefore(i, writes[n].idx)
          /\ writes[n].col = NextEmpty(df_lob[writes[n].stock], 0)
          /\ LeftoverTotal(writes[n].stock) = Remainder(writes[n].idx)

\* the full shipsets of the shipments of row k
SlotsNeeded(k) ==
    SumOf(PlacedShipmentsOf(k), [i \in PlacedShipmentsOf(k) |-> Pieces(i) \div PerUnit(i)])

\* the cells of row k as the LOB file holds them
FileRow(k) ==
    init_file.cells[CHOOSE i \in 1..Len(init_file.index) : strip(init_file.index[i]) = k]

\* C10 -- Gap-free fill: after a run the rows and columns are those of the LOB
\* file, and in every row the cells that differ from the table the allocation
\* began with are exactly its first k empty cells, k the smaller of the full
\* shipsets shipped to the row and the number of its empty cells; every other
\* cell holds what the file holds there, '' where the file holds no value.
C10_GapFreeFill ==
    pc = "done" =>
        /\ DOMAIN styled_table = TableKeys
        /\ \A k \in TableKeys :
              /\ Len(styled_table[k]) = Len(df_lob[k])
              /\ Len(styled_table[k]) = NumCols
              /\ ChangedCols(k)
                    = FirstCols(EmptyCols(k),
                                Min(SlotsNeeded(k), Cardinality(EmptyCols(k))))
              /\ \A c \in (1..NumCols) \ ChangedCols(k) :
                    styled_table[k][c]
                      = IF FileRow(k)[c] = NaN THEN Str(<<>>) ELSE FileRow(k)[c]

\* a row was filled on both sides of a 'Stock' cell while the other row, which
\* has empty cells but no shipment, is as it was
C10_Witness ==
    /\ pc = "done"
    /\ \E k \in TableKeys :
          /\ \E c \in 1..NumCols :
                /\ df_lob[k][c] = Stock
                /\ \E b, d \in ChangedCols(k) : b < c /\ c < d
          /\ \E o \in TableKeys \ {k} :
                /\ ShipmentsOf(o) = {}
                /\ EmptyCols(o) # {}
                /\ styled_table[o] = df_lob[o]
====
